---- MODULE Spec2Model ----
(***************************************************************************)
(* Shape and channel bookkeeping of network/deepv3_modify.py: the ASPP     *)
(* module, DeepV3Plus and the three WideResNet38 DeepLabV3+ variants.      *)
(* A tensor is its shape (n, c, h, w); every layer is the function it      *)
(* applies to a shape, raising where the framework raises.                 *)
(***************************************************************************)
EXTENDS Integers, Sequences, FiniteSets, TLC

VARIABLES obj, call

vars == <<obj, call>>

(***************************************************************************)
(* Bounds of the model.                                                    *)
(***************************************************************************)
MinSize == 3
MaxSize == 33
MaxBatch == 2
MaxClasses == 2
MaxSkipNum == 1
MaxRate == 3
MaxStride == 2
MaxReduction == 1
MaxAsppSize == 4

\* input heights and widths: the smallest, a multiple of every stride, an odd one
Sizes == {MinSize, 16, MaxSize}
Batches == {1, MaxBatch}
ClassCounts == {MaxClasses, 19}

(***************************************************************************)
(* Values: tensors (by shape), scalar losses, raised exceptions.           *)
(***************************************************************************)
Tensor(n, c, h, w) == [kind |-> "tensor", n |-> n, c |-> c, h |-> h, w |-> w]

Raise(exc, msg) == [kind |-> "raise", exc |-> exc, msg |-> msg]

Loss == [kind |-> "loss"]

\* the raise statement given a str, which is no exception: the interpreter
\* raises TypeError in its place and the str is lost
RaiseStr(msg) == Raise("TypeError", "exceptions must derive from BaseException")

IsTensor(x) == x.kind = "tensor"

IsRaise(x) == x.kind = "raise"

Pair(v) == <<v, v>>

Max(a, b) == IF a >= b THEN a ELSE b

\* str.format of a non-negative integer
Digit(d) == <<"0", "1", "2", "3", "4", "5", "6", "7", "8", "9">>[d + 1]

RECURSIVE Str(_)
Str(v) == IF v < 10 THEN Digit(v) ELSE Str(v \div 10) \o Digit(v % 10)


(***************************************************************************)
(* Framework layers, as functions of shapes.                               *)
(***************************************************************************)
Conv2d(cin, cout, k, s, p, d) ==
    [kind |-> "conv", in |-> cin, out |-> cout, kernel_size |-> Pair(k),
     stride |-> Pair(s), padding |-> Pair(p), dilation |-> Pair(d)]

\* output length of a convolution along one axis
ConvOut(len, m, ax) ==
    (len + 2 * m.padding[ax] - m.dilation[ax] * (m.kernel_size[ax] - 1) - 1)
        \div m.stride[ax] + 1

Conv2d_forward(m, x) ==
    IF ~IsTensor(x) THEN x
    ELSE IF x.c # m.in THEN Raise("RuntimeError", "channels")
    ELSE IF ConvOut(x.h, m, 1) < 1 \/ ConvOut(x.w, m, 2) < 1
         THEN Raise("RuntimeError", "kernel size")
    ELSE Tensor(x.n, m.out, ConvOut(x.h, m, 1), ConvOut(x.w, m, 2))

AdaptiveAvgPool2d(x, size) ==
    IF ~IsTensor(x) THEN x ELSE Tensor(x.n, x.c, size, size)

\* network.mynn.Norm2d: batch normalisation keeps the shape; in training mode
\* it refuses a batch with a single value per channel
Norm2d(x, training) ==
    IF IsTensor(x) /\ training /\ x.n * x.h * x.w = 1
    THEN Raise("ValueError", "Expected more than 1 value per channel when training")
    ELSE x

ReLU(x) == x

\* network.mynn.Upsample: bilinear interpolation to the given (h, w)
Upsample(x, size) ==
    IF ~IsTensor(x) THEN x ELSE Tensor(x.n, x.c, size[1], size[2])

Size2(x) == <<x.h, x.w>>

RECURSIVE SumC(_, _)
SumC(xs, i) == IF i > Len(xs) THEN 0 ELSE xs[i].c + SumC(xs, i + 1)

\* torch.cat(xs, 1): all operands agree outside the channel dimension
TorchCat(xs) ==
    IF \E i \in 1..Len(xs) : ~IsTensor(xs[i])
    THEN (CHOOSE y \in {xs[i] : i \in 1..Len(xs)} : ~IsTensor(y))
    ELSE IF \E i \in 1..Len(xs) :
                xs[i].n # xs[1].n \/ xs[i].h # xs[1].h \/ xs[i].w # xs[1].w
    THEN Raise("RuntimeError", "sizes of tensors must match")
    ELSE Tensor(xs[1].n, SumC(xs, 1), xs[1].h, xs[1].w)

\* the concatenations a forward pass has executed, with their operands
LogCat(cats, xs) ==
    IF \A i \in 1..Len(xs) : IsTensor(xs[i]) THEN Append(cats, xs) ELSE cats

(***************************************************************************)
(* _AtrousSpatialPyramidPoolingModule                                      *)
(***************************************************************************)
ConvNormReLU(m, x, training) == ReLU(Norm2d(Conv2d_forward(m, x), training))

\* ASPP_rates with the stride test inverted: doubling at 16 instead of 8
ASPP_rates_DoubledAt16(output_stride, rates) ==
    IF output_stride = 16 THEN [i \in 1..Len(rates) |-> 2 * rates[i]] ELSE rates

ASPP_rates(output_stride, rates) ==
    IF output_stride = 8 THEN [i \in 1..Len(rates) |-> 2 * rates[i]] ELSE rates

\* ASPP_init with the dilated branches built without padding=r
ASPP_init_NoPadding(in_dim, reduction_dim, output_stride, rates) ==
    IF output_stride # 8 /\ output_stride # 16
    THEN Raise("TypeError", "exceptions must derive from BaseException")
    ELSE LET rs == ASPP_rates(output_stride, rates)
         IN  [kind |-> "aspp",
              features |-> <<Conv2d(in_dim, reduction_dim, 1, 1, 0, 1)>> \o
                  [i \in 1..Len(rs) |->
                      Conv2d(in_dim, reduction_dim, 3, 1, 0, rs[i])],
              img_conv |-> Conv2d(in_dim, reduction_dim, 1, 1, 0, 1)]

ASPP_init(in_dim, reduction_dim, output_stride, rates) ==
    IF output_stride # 8 /\ output_stride # 16
    THEN RaiseStr("output stride of " \o Str(output_stride) \o " not supported")
    ELSE LET rs == ASPP_rates(output_stride, rates)
         IN  [kind |-> "aspp",
              features |-> <<Conv2d(in_dim, reduction_dim, 1, 1, 0, 1)>> \o
                  [i \in 1..Len(rs) |->
                      Conv2d(in_dim, reduction_dim, 3, 1, rs[i], rs[i])],
              img_conv |-> Conv2d(in_dim, reduction_dim, 1, 1, 0, 1)]

RECURSIVE ASPP_loop(_, _, _, _, _, _)
ASPP_loop(m, x, out, i, cats, training) ==
    IF i > Len(m.features) \/ ~IsTensor(out) THEN [val |-> out, cats |-> cats]
    ELSE LET y == ConvNormReLU(m.features[i], x, training)
         IN  ASPP_loop(m, x, TorchCat(<<out, y>>), i + 1, LogCat(cats, <<out, y>>),
                       training)

ASPP_forward(m, x, cats, training) ==
    IF ~IsTensor(x) THEN [val |-> x, cats |-> cats]
    ELSE LET img_features ==
                 Upsample(ConvNormReLU(m.img_conv, AdaptiveAvgPool2d(x, 1), training),
                          Size2(x))
         IN  ASPP_loop(m, x, img_features, 1, cats, training)

(***************************************************************************)
(* Backbones (network.Resnet, network.SEresnext): bottleneck layers as     *)
(* named_modules() lists them, a module name being its dotted path.        *)
(***************************************************************************)
MaxPool2d(k, s, p, ceil_mode) ==
    [kind |-> "maxpool", kernel_size |-> k, stride |-> s, padding |-> p,
     ceil_mode |-> ceil_mode]

PoolOut(len, m) ==
    LET o == IF m.ceil_mode
             THEN (len + 2 * m.padding - m.kernel_size + m.stride - 1) \div m.stride + 1
             ELSE (len + 2 * m.padding - m.kernel_size) \div m.stride + 1
    IN  IF m.ceil_mode /\ (o - 1) * m.stride >= len + m.padding THEN o - 1 ELSE o

MaxPool2d_forward(m, x) ==
    IF ~IsTensor(x) THEN x
    ELSE IF PoolOut(x.h, m) < 1 \/ PoolOut(x.w, m) < 1
         THEN Raise("RuntimeError", "output size is too small")
    ELSE Tensor(x.n, x.c, PoolOut(x.h, m), PoolOut(x.w, m))

BlockNames(i) ==
    {<<Str(i), c>> : c \in {"conv1", "conv2", "conv3"}}

LayerNames(blocks) ==
    UNION {BlockNames(i) : i \in 0..(blocks - 1)}
        \cup {<<"0", "downsample", "0">>, <<"0", "downsample", "1">>}

\* _make_layer of a bottleneck network with expansion 4
MakeLayer(inplanes, planes, blocks, stride) ==
    [name \in LayerNames(blocks) |->
        LET first == name[1] = "0"
            cin == IF first THEN inplanes ELSE planes * 4
        IN  IF Len(name) = 3
            THEN IF name[3] = "0" THEN Conv2d(inplanes, planes * 4, 1, stride, 0, 1)
                 ELSE [kind |-> "bn"]
            ELSE IF name[2] = "conv1" THEN Conv2d(cin, planes, 1, 1, 0, 1)
            ELSE IF name[2] = "conv2"
                 THEN Conv2d(planes, planes, 3, IF first THEN stride ELSE 1, 1, 1)
            ELSE Conv2d(planes, planes * 4, 1, 1, 0, 1)]

Backbone(pool, blocks) ==
    [kind |-> "backbone",
     layer0 |-> <<Conv2d(3, 64, 7, 2, 3, 1), pool>>,
     layer1 |-> MakeLayer(64, 64, blocks[1], 1),
     layer2 |-> MakeLayer(256, 128, blocks[2], 2),
     layer3 |-> MakeLayer(512, 256, blocks[3], 2),
     layer4 |-> MakeLayer(1024, 512, blocks[4], 2)]

se_resnext50_32x4d == Backbone(MaxPool2d(3, 2, 0, TRUE), <<3, 4, 6, 3>>)

se_resnext101_32x4d == Backbone(MaxPool2d(3, 2, 0, TRUE), <<3, 4, 23, 3>>)

resnet50 == Backbone(MaxPool2d(3, 2, 1, FALSE), <<3, 4, 6, 3>>)

resnet101 == Backbone(MaxPool2d(3, 2, 1, FALSE), <<3, 4, 23, 3>>)

Layer0_forward(layer0, x, training) ==
    MaxPool2d_forward(layer0[2], ReLU(Norm2d(Conv2d_forward(layer0[1], x), training)))

\* out = conv3(conv2(conv1(x))) + residual
Add(a, b) ==
    IF ~IsTensor(a) THEN a
    ELSE IF ~IsTensor(b) THEN b
    ELSE IF a # b THEN Raise("RuntimeError", "size of tensor a must match tensor b")
    ELSE a

Bottleneck_forward(layer, i, x) ==
    LET out == Conv2d_forward(layer[<<Str(i), "conv3">>],
                   Conv2d_forward(layer[<<Str(i), "conv2">>],
                       Conv2d_forward(layer[<<Str(i), "conv1">>], x)))
        residual == IF <<Str(i), "downsample", "0">> \in DOMAIN layer
                    THEN Conv2d_forward(layer[<<Str(i), "downsample", "0">>], x)
                    ELSE x
    IN  Add(out, residual)

RECURSIVE Layer_loop(_, _, _)
Layer_loop(layer, i, x) ==
    IF ~IsTensor(x) \/ <<Str(i), "conv1">> \notin DOMAIN layer THEN x
    ELSE Layer_loop(layer, i + 1, Bottleneck_forward(layer, i, x))

Layer_forward(layer, x) == Layer_loop(layer, 0, x)

(***************************************************************************)
(* Decoder heads                                                           *)
(***************************************************************************)
RECURSIVE Sequential_loop(_, _, _, _)
Sequential_loop(ms, i, x, training) ==
    IF i > Len(ms) \/ ~IsTensor(x) THEN x
    ELSE Sequential_loop(ms, i + 1,
             IF ms[i].kind = "conv" THEN Conv2d_forward(ms[i], x)
             ELSE IF ms[i].kind = "norm" THEN Norm2d(x, training)
             ELSE x,
             training)

Sequential_forward(ms, x, training) == Sequential_loop(ms, 1, x, training)

\* criterion(out, gts)
Criterion(criterion, out) ==
    IF ~IsTensor(out) THEN out
    ELSE IF criterion = "None"
         THEN Raise("TypeError", "'NoneType' object is not callable")
    ELSE Loss

(***************************************************************************)
(* DeepV3Plus                                                              *)
(***************************************************************************)
\* 'pat' in n, for dotted names held as paths
NameContains(n, pat) ==
    \E i \in 1..(Len(n) - Len(pat) + 1) : SubSeq(n, i, i + Len(pat) - 1) = pat

\* Dilate with the downsample.0 branch of the loop left out
Dilate_NoDownsample(layer, d) ==
    [n \in DOMAIN layer |->
        IF NameContains(n, <<"conv2">>)
        THEN [layer[n] EXCEPT !.dilation = <<d, d>>, !.padding = <<d, d>>,
                              !.stride = <<1, 1>>]
        ELSE layer[n]]

\* the loop over layer.named_modules() of one dilated layer
Dilate(layer, d) ==
    [n \in DOMAIN layer |->
        IF NameContains(n, <<"conv2">>)
        THEN [layer[n] EXCEPT !.dilation = <<d, d>>, !.padding = <<d, d>>,
                              !.stride = <<1, 1>>]
        ELSE IF NameContains(n, <<"downsample", "0">>)
        THEN [layer[n] EXCEPT !.stride = <<1, 1>>]
        ELSE layer[n]]

DeepV3Plus_trunk(trunk) ==
    IF trunk = "seresnext-50" THEN se_resnext50_32x4d
    ELSE IF trunk = "seresnext-101" THEN se_resnext101_32x4d
    ELSE IF trunk = "resnet-50" THEN resnet50
    ELSE IF trunk = "resnet-101" THEN resnet101
    ELSE Raise("ValueError", "Not a valid network arch")

DeepV3Plus_variant(resnet, variant) ==
    IF variant = "D"
    THEN [resnet EXCEPT !.layer3 = Dilate(resnet.layer3, 2),
                        !.layer4 = Dilate(resnet.layer4, 4)]
    ELSE IF variant = "D16"
    THEN [resnet EXCEPT !.layer4 = Dilate(resnet.layer4, 2)]
    ELSE resnet

\* DeepV3Plus_bot_fine with skip 'm2' given the input width of skip 'm1'
DeepV3Plus_bot_fine_SameWidth(skip, skip_num) ==
    IF skip = "m1" THEN Conv2d(256, skip_num, 1, 1, 0, 1)
    ELSE IF skip = "m2" THEN Conv2d(256, skip_num, 1, 1, 0, 1)
    ELSE Raise("Exception", "Not a valid skip")

DeepV3Plus_bot_fine(skip, skip_num) ==
    IF skip = "m1" THEN Conv2d(256, skip_num, 1, 1, 0, 1)
    ELSE IF skip = "m2" THEN Conv2d(512, skip_num, 1, 1, 0, 1)
    ELSE Raise("Exception", "Not a valid skip")

DeepV3Plus_final(skip_num, num_classes) ==
    <<Conv2d(256 + skip_num, 256, 3, 1, 1, 1), [kind |-> "norm"], [kind |-> "relu"],
      Conv2d(256, 256, 3, 1, 1, 1), [kind |-> "norm"], [kind |-> "relu"],
      Conv2d(256, num_classes, 1, 1, 0, 1)>>

\* DeepV3Plus_init with the skip validated before the trunk
DeepV3Plus_init_SkipFirst(num_classes, trunk, criterion, variant, skip, skip_num) ==
    LET resnet == DeepV3Plus_trunk(trunk)
        bot_fine == DeepV3Plus_bot_fine(skip, skip_num)
    IN  IF IsRaise(bot_fine) THEN bot_fine
        ELSE IF IsRaise(resnet) THEN resnet
        ELSE LET layers == DeepV3Plus_variant(resnet, variant)
             IN  [kind |-> "DeepV3Plus", criterion |-> criterion, variant |-> variant,
                  skip |-> skip, skip_num |-> skip_num,
                  layer0 |-> layers.layer0, layer1 |-> layers.layer1,
                  layer2 |-> layers.layer2, layer3 |-> layers.layer3,
                  layer4 |-> layers.layer4,
                  aspp |-> ASPP_init(2048, 256, 8, <<6, 12, 18>>),
                  bot_fine |-> bot_fine,
                  bot_aspp |-> Conv2d(1280, 256, 1, 1, 0, 1),
                  final |-> DeepV3Plus_final(skip_num, num_classes)]

DeepV3Plus_init(num_classes, trunk, criterion, variant, skip, skip_num) ==
    LET resnet == DeepV3Plus_trunk(trunk)
        layers == DeepV3Plus_variant(resnet, variant)
        aspp == ASPP_init(2048, 256, 8, <<6, 12, 18>>)
        bot_fine == DeepV3Plus_bot_fine(skip, skip_num)
    IN  IF IsRaise(resnet) THEN resnet
        ELSE IF IsRaise(aspp) THEN aspp
        ELSE IF IsRaise(bot_fine) THEN bot_fine
        ELSE [kind |-> "DeepV3Plus", criterion |-> criterion, variant |-> variant,
              skip |-> skip, skip_num |-> skip_num,
              layer0 |-> layers.layer0, layer1 |-> layers.layer1,
              layer2 |-> layers.layer2, layer3 |-> layers.layer3,
              layer4 |-> layers.layer4,
              aspp |-> aspp, bot_fine |-> bot_fine,
              bot_aspp |-> Conv2d(1280, 256, 1, 1, 0, 1),
              final |-> DeepV3Plus_final(skip_num, num_classes)]

\* Decoder returning the head's output without upsampling it to the input size
Decoder_NoFinalUpsample(self, final, xp, skipx, x_size, cats, training) ==
    LET dec0_up0 == Conv2d_forward(self.bot_aspp, xp)
        dec0_fine == Conv2d_forward(self.bot_fine, skipx)
        dec0_up == IF ~IsTensor(dec0_up0) THEN dec0_up0
                   ELSE IF ~IsTensor(dec0_fine) THEN dec0_fine
                   ELSE Upsample(dec0_up0, Size2(skipx))
        dec0 == IF ~IsTensor(dec0_up) THEN dec0_up
                ELSE TorchCat(<<dec0_fine, dec0_up>>)
    IN  [val |-> Sequential_forward(final, dec0, training),
         cats |-> LogCat(cats, <<dec0_fine, dec0_up>>)]

\* bot_aspp, bot_fine on the skip feature, upsample, concatenate, final head,
\* upsample to the input size
Decoder(self, final, xp, skipx, x_size, cats, training) ==
    LET dec0_up0 == Conv2d_forward(self.bot_aspp, xp)
        dec0_fine == Conv2d_forward(self.bot_fine, skipx)
        dec0_up == IF ~IsTensor(dec0_up0) THEN dec0_up0
                   ELSE IF ~IsTensor(dec0_fine) THEN dec0_fine
                   ELSE Upsample(dec0_up0, Size2(skipx))
        dec0 == IF ~IsTensor(dec0_up) THEN dec0_up
                ELSE TorchCat(<<dec0_fine, dec0_up>>)
        dec1 == Sequential_forward(final, dec0, training)
    IN  [val |-> Upsample(dec1, x_size), cats |-> LogCat(cats, <<dec0_fine, dec0_up>>)]

DeepV3Plus_forward(self, x, training) ==
    LET x0 == Layer0_forward(self.layer0, x, training)
        x1 == Layer_forward(self.layer1, x0)
        x2 == Layer_forward(self.layer2, x1)
        x3 == Layer_forward(self.layer3, x2)
        x4 == Layer_forward(self.layer4, x3)
        xp == ASPP_forward(self.aspp, x4, <<>>, training)
        dec == Decoder(self, self.final, xp.val, IF self.skip = "m1" THEN x1 ELSE x2,
                       Size2(x), xp.cats, training)
    IN  [val |-> IF training THEN Criterion(self.criterion, dec.val) ELSE dec.val,
         cats |-> dec.cats, pdb |-> FALSE]

(***************************************************************************)
(* WideResNet38 trunk (network.wider_resnet.wider_resnet38_a2 with         *)
(* dilation=True): each mod by the shape it produces, a residual module    *)
(* mapping (h, w) as its strided 3x3 convolution with padding = dilation.  *)
(***************************************************************************)
wider_resnet38_a2 ==
    [kind |-> "wider_resnet",
     mod1 |-> Conv2d(3, 64, 3, 1, 1, 1),
     pool2 |-> MaxPool2d(3, 2, 1, FALSE),
     mod2 |-> Conv2d(64, 128, 3, 1, 1, 1),
     pool3 |-> MaxPool2d(3, 2, 1, FALSE),
     mod3 |-> Conv2d(128, 256, 3, 1, 1, 1),
     mod4 |-> Conv2d(256, 512, 3, 2, 1, 1),
     mod5 |-> Conv2d(512, 1024, 3, 1, 2, 2),
     mod6 |-> Conv2d(1024, 2048, 3, 1, 4, 4),
     mod7 |-> Conv2d(2048, 4096, 3, 1, 4, 4)]

NoTasks == [none |-> TRUE, list |-> <<>>]

TaskList(ts) == [none |-> FALSE, list |-> ts]

\* torch.load + forgiving_state_restore, attempted only with a criterion
LoadWeights(criterion, checkpoint) ==
    IF criterion # "None" /\ ~checkpoint
    THEN Raise("RuntimeError", "Could not load ImageNet weights of WideResNet38 network.")
    ELSE wider_resnet38_a2

WideHead(last) ==
    <<Conv2d(256 + 48, 256, 3, 1, 1, 1), [kind |-> "norm"], [kind |-> "relu"],
      Conv2d(256, 256, 3, 1, 1, 1), [kind |-> "norm"], [kind |-> "relu"]>> \o last

DropoutHead(num_classes) ==
    <<Conv2d(256 + 48, 256, 3, 1, 1, 1), [kind |-> "norm"], [kind |-> "relu"],
      [kind |-> "dropout"],
      Conv2d(256, 256, 3, 1, 1, 1), [kind |-> "norm"], [kind |-> "relu"],
      [kind |-> "dropout"],
      Conv2d(256, num_classes, 1, 1, 0, 1)>>

WideModel(kind, trunk, criterion, criterion2, tasks, final) ==
    LET aspp == ASPP_init(4096, 256, 8, <<6, 12, 18>>)
    IN  IF IsRaise(trunk) THEN trunk
        ELSE IF IsRaise(aspp) THEN aspp
        ELSE [kind |-> kind, criterion |-> criterion, criterion2 |-> criterion2,
              tasks |-> tasks, trunk |-> trunk, aspp |-> aspp,
              bot_fine |-> Conv2d(128, 48, 1, 1, 0, 1),
              bot_aspp |-> Conv2d(1280, 256, 1, 1, 0, 1),
              final |-> final]

DeepWV3Plus_init(num_classes, criterion, criterion2, tasks, checkpoint) ==
    WideModel("DeepWV3Plus", LoadWeights(criterion, checkpoint), criterion, criterion2,
              tasks, WideHead(<<Conv2d(256, num_classes, 1, 1, 0, 1)>>))

DeepWV3Plus_cfl_init(num_classes, criterion, criterion2, tasks, checkpoint) ==
    WideModel("DeepWV3Plus_cfl", LoadWeights(criterion, checkpoint), criterion,
              criterion2, tasks, WideHead(<<>>))

\* the second head exists only with tasks
SecondHead(self) ==
    LET aspp2 == ASPP_init(4096, 256, 8, <<6, 12, 18>>)
    IN  IF IsRaise(self) \/ self.tasks.none THEN self
        ELSE IF IsRaise(aspp2) THEN aspp2
        ELSE [kind |-> self.kind, criterion |-> self.criterion,
              criterion2 |-> self.criterion2, tasks |-> self.tasks,
              trunk |-> self.trunk, aspp |-> self.aspp, bot_fine |-> self.bot_fine,
              bot_aspp |-> self.bot_aspp, final |-> self.final,
              aspp2 |-> aspp2,
              bot_fine2 |-> Conv2d(128, 48, 1, 1, 0, 1),
              bot_aspp2 |-> Conv2d(1280, 256, 1, 1, 0, 1),
              final2 |-> WideHead(<<Conv2d(256, 2, 1, 1, 0, 1)>>)]

DeepWV3Plus_dropout_init(num_classes, criterion, criterion2, tasks, checkpoint) ==
    SecondHead(WideModel("DeepWV3Plus_dropout", LoadWeights(criterion, checkpoint),
                         criterion, criterion2, tasks, DropoutHead(num_classes)))

\* mod1 .. mod5: m2 is the skip feature, x_tmp the last shared feature
WideTrunk_forward(t, inp) ==
    LET x == Conv2d_forward(t.mod1, inp)
        m2 == Conv2d_forward(t.mod2, MaxPool2d_forward(t.pool2, x))
        x3 == Conv2d_forward(t.mod3, MaxPool2d_forward(t.pool3, m2))
        x4 == Conv2d_forward(t.mod4, x3)
    IN  [m2 |-> m2, x_tmp |-> Conv2d_forward(t.mod5, x4)]

\* mod6, mod7, aspp and the decoder of one head
WideHead_forward(self, aspp, bots, final, x_tmp, m2, x_size, cats, training) ==
    LET x == Conv2d_forward(self.trunk.mod7, Conv2d_forward(self.trunk.mod6, x_tmp))
        xp == ASPP_forward(aspp, x, cats, training)
    IN  Decoder(bots, final, xp.val, m2, x_size, xp.cats, training)

Bots(self) == [bot_aspp |-> self.bot_aspp, bot_fine |-> self.bot_fine]

Bots2(self) == [bot_aspp |-> self.bot_aspp2, bot_fine |-> self.bot_fine2]

DeepWV3Plus_forward(self, inp, training) ==
    LET t == WideTrunk_forward(self.trunk, inp)
        dec == WideHead_forward(self, self.aspp, Bots(self), self.final, t.x_tmp, t.m2,
                                Size2(inp), <<>>, training)
    IN  [val |-> IF training THEN Criterion(self.criterion, dec.val) ELSE dec.val,
         cats |-> dec.cats, pdb |-> FALSE]

DeepWV3Plus_cfl_forward(self, inp, training) ==
    LET t == WideTrunk_forward(self.trunk, inp)
        dec == WideHead_forward(self, self.aspp, Bots(self), self.final, t.x_tmp, t.m2,
                                Size2(inp), <<>>, training)
    IN  [val |-> IF training THEN Criterion(self.criterion, dec.val) ELSE dec.val,
         cats |-> dec.cats, pdb |-> FALSE]

\* pdb is TRUE when the pass stops in pdb.set_trace(); val is then what
\* continuing returns
DeepWV3Plus_dropout_forward(self, inp, training, task) ==
    LET t == WideTrunk_forward(self.trunk, inp)
        n == Len(self.tasks.list)
        dec1 == WideHead_forward(self, self.aspp, Bots(self), self.final, t.x_tmp, t.m2,
                                 Size2(inp), <<>>, training)
        dec2 == WideHead_forward(self, self.aspp2, Bots2(self), self.final2, t.x_tmp,
                                 t.m2, Size2(inp), dec1.cats, training)
    IN  IF self.tasks.none
        THEN IF training /\ IsTensor(dec1.val)
             THEN [val |-> Criterion(self.criterion, dec1.val), cats |-> dec1.cats,
                   pdb |-> TRUE]
             ELSE [val |-> dec1.val, cats |-> dec1.cats, pdb |-> FALSE]
        ELSE IF ~IsTensor(t.x_tmp)
             THEN [val |-> t.x_tmp, cats |-> <<>>, pdb |-> FALSE]
        ELSE IF n < 1
             THEN [val |-> Raise("IndexError", "list index out of range"),
                   cats |-> <<>>, pdb |-> FALSE]
        ELSE IF ~IsTensor(dec1.val)
             THEN [val |-> dec1.val, cats |-> dec1.cats, pdb |-> FALSE]
        ELSE IF n < 2
             THEN [val |-> Raise("IndexError", "list index out of range"),
                   cats |-> dec1.cats, pdb |-> FALSE]
        ELSE IF ~IsTensor(dec2.val)
             THEN [val |-> dec2.val, cats |-> dec2.cats, pdb |-> FALSE]
        ELSE IF training /\ task = "semantic"
             THEN [val |-> Criterion(self.criterion, dec1.val), cats |-> dec2.cats,
                   pdb |-> FALSE]
        ELSE IF training /\ task = "traversability"
             THEN [val |-> Criterion(self.criterion2, dec2.val), cats |-> dec2.cats,
                   pdb |-> FALSE]
        ELSE [val |-> [kind |-> "tuple", out1 |-> dec1.val, out2 |-> dec2.val],
              cats |-> dec2.cats, pdb |-> FALSE]

(***************************************************************************)
(* State machine: construct one object, then call forward on it.           *)
(***************************************************************************)
OutputStrides == {8, 16, 32} \cup (1..MaxStride)
RateSets == {<<6, 12, 18>>, <<>>} \cup {<<r>> : r \in 1..MaxRate}
                \cup {<<r, MaxRate>> : r \in 1..MaxRate}
ReductionDims == {256} \cup (1..MaxReduction)

Init ==
    /\ obj = [kind |-> "none"]
    /\ call = [kind |-> "none"]

NewASPP ==
    /\ obj.kind = "none"
    /\ \E in_dim \in {2048, 4096}, reduction_dim \in ReductionDims,
          output_stride \in OutputStrides, rates \in RateSets :
          obj' = [kind |-> "ASPP",
                  args |-> [in_dim |-> in_dim, reduction_dim |-> reduction_dim,
                            output_stride |-> output_stride, rates |-> rates],
                  self |-> ASPP_init(in_dim, reduction_dim, output_stride, rates)]
    /\ UNCHANGED call

Constructed == obj.kind # "none" /\ ~IsRaise(obj.self)

\* what a forward pass leaves: returned or raised, or stopped at a breakpoint
Outcome(x, training, task, r) ==
    [kind |-> IF r.pdb THEN "pdb" ELSE "done", x |-> x, training |-> training,
     task |-> task, result |-> r.val, cats |-> r.cats]

CallASPP ==
    /\ obj.kind = "ASPP" /\ Constructed
    /\ call.kind = "none"
    /\ \E n \in Batches, h \in 1..MaxAsppSize, w \in 1..MaxAsppSize,
          training \in BOOLEAN :
          LET x == Tensor(n, obj.args.in_dim, h, w)
              r == ASPP_forward(obj.self, x, <<>>, training)
          IN  call' = [kind |-> "done", x |-> x, training |-> training,
                       task |-> "None", result |-> r.val, cats |-> r.cats]
    /\ UNCHANGED obj

Trunks == {"seresnext-50", "seresnext-101", "resnet-50", "resnet-101", "resnet-18"}
Variants == {"D", "D16", "A"}
Skips == {"m1", "m2", "m3"}
SkipNums == {48, MaxSkipNum}
Criteria == {"None", "criterion"}

NewDeepV3Plus ==
    /\ obj.kind = "none"
    /\ \E num_classes \in ClassCounts, trunk \in Trunks, criterion \in Criteria,
          variant \in Variants, skip \in Skips, skip_num \in SkipNums :
          obj' = [kind |-> "DeepV3Plus",
                  args |-> [num_classes |-> num_classes, trunk |-> trunk,
                            criterion |-> criterion, variant |-> variant,
                            skip |-> skip, skip_num |-> skip_num],
                  self |-> DeepV3Plus_init(num_classes, trunk, criterion, variant,
                                           skip, skip_num)]
    /\ UNCHANGED call

CallDeepV3Plus ==
    /\ obj.kind = "DeepV3Plus" /\ Constructed
    /\ call.kind = "none"
    /\ \E n \in Batches, h \in Sizes, w \in Sizes, training \in BOOLEAN :
          LET x == Tensor(n, 3, h, w)
          IN  call' = Outcome(x, training, "None",
                              DeepV3Plus_forward(obj.self, x, training))
    /\ UNCHANGED obj

TaskConfigs ==
    {NoTasks, TaskList(<<"semantic", "traversability">>), TaskList(<<"semantic">>)}

NewDeepWV3Plus ==
    /\ obj.kind = "none"
    /\ \E num_classes \in ClassCounts, criterion \in Criteria, checkpoint \in BOOLEAN :
          obj' = [kind |-> "DeepWV3Plus",
                  args |-> [num_classes |-> num_classes, criterion |-> criterion,
                            tasks |-> NoTasks],
                  self |-> DeepWV3Plus_init(num_classes, criterion, "None", NoTasks,
                                            checkpoint)]
    /\ UNCHANGED call

NewDeepWV3Plus_cfl ==
    /\ obj.kind = "none"
    /\ \E num_classes \in ClassCounts, criterion \in Criteria, checkpoint \in BOOLEAN :
          obj' = [kind |-> "DeepWV3Plus_cfl",
                  args |-> [num_classes |-> num_classes, criterion |-> criterion,
                            tasks |-> NoTasks],
                  self |-> DeepWV3Plus_cfl_init(num_classes, criterion, "None", NoTasks,
                                                checkpoint)]
    /\ UNCHANGED call

NewDeepWV3Plus_dropout ==
    /\ obj.kind = "none"
    /\ \E num_classes \in ClassCounts, criterion \in Criteria, criterion2 \in Criteria,
          tasks \in TaskConfigs, checkpoint \in BOOLEAN :
          obj' = [kind |-> "DeepWV3Plus_dropout",
                  args |-> [num_classes |-> num_classes, criterion |-> criterion,
                            tasks |-> tasks],
                  self |-> DeepWV3Plus_dropout_init(num_classes, criterion, criterion2,
                                                    tasks, checkpoint)]
    /\ UNCHANGED call

CallDeepWV3Plus ==
    /\ obj.kind = "DeepWV3Plus" /\ Constructed
    /\ call.kind = "none"
    /\ \E n \in Batches, h \in Sizes, w \in Sizes, training \in BOOLEAN :
          LET x == Tensor(n, 3, h, w)
          IN  call' = Outcome(x, training, "None",
                              DeepWV3Plus_forward(obj.self, x, training))
    /\ UNCHANGED obj

CallDeepWV3Plus_cfl ==
    /\ obj.kind = "DeepWV3Plus_cfl" /\ Constructed
    /\ call.kind = "none"
    /\ \E n \in Batches, h \in Sizes, w \in Sizes, training \in BOOLEAN :
          LET x == Tensor(n, 3, h, w)
          IN  call' = Outcome(x, training, "None",
                              DeepWV3Plus_cfl_forward(obj.self, x, training))
    /\ UNCHANGED obj

CallDeepWV3Plus_dropout ==
    /\ obj.kind = "DeepWV3Plus_dropout" /\ Constructed
    /\ call.kind = "none"
    /\ \E n \in Batches, h \in Sizes, w \in Sizes, training \in BOOLEAN,
          task \in {"None", "semantic", "traversability"} :
          LET x == Tensor(n, 3, h, w)
          IN  call' = Outcome(x, training, task,
                              DeepWV3Plus_dropout_forward(obj.self, x, training, task))
    /\ UNCHANGED obj

\* the debugger prompt: the pass goes on only when someone types a command
PdbContinue ==
    /\ call.kind = "pdb"
    /\ call' = [call EXCEPT !.kind = "done"]
    /\ UNCHANGED obj

PdbQuit ==
    /\ call.kind = "pdb"
    /\ call' = [call EXCEPT !.kind = "done", !.result = Raise("BdbQuit", "")]
    /\ UNCHANGED obj

Next ==
    \/ NewASPP \/ CallASPP
    \/ NewDeepV3Plus \/ CallDeepV3Plus
    \/ NewDeepWV3Plus \/ CallDeepWV3Plus
    \/ NewDeepWV3Plus_cfl \/ CallDeepWV3Plus_cfl
    \/ NewDeepWV3Plus_dropout \/ CallDeepWV3Plus_dropout
    \/ PdbContinue \/ PdbQuit

Spec == Init /\ [][Next]_vars

(***************************************************************************)
(* Properties                                                              *)
(***************************************************************************)
Models == {"DeepV3Plus", "DeepWV3Plus", "DeepWV3Plus_cfl", "DeepWV3Plus_dropout"}

IsModel == obj.kind \in Models /\ Constructed

\* a model with one head: every class, DeepWV3Plus_dropout only with tasks=None
TaskCount == IF obj.kind = "DeepV3Plus" THEN 0 ELSE Len(obj.args.tasks.list)

HasTasks == obj.kind # "DeepV3Plus" /\ ~obj.args.tasks.none

SingleHead == IsModel /\ ~HasTasks

EvalReturned == call.kind = "done" /\ ~call.training

\* the low-level feature the decoder concatenates with
SkipFeature ==
    IF obj.kind = "DeepV3Plus"
    THEN LET x1 == Layer_forward(obj.self.layer1,
                                 Layer0_forward(obj.self.layer0, call.x, FALSE))
         IN  IF obj.args.skip = "m1" THEN x1 ELSE Layer_forward(obj.self.layer2, x1)
    ELSE WideTrunk_forward(obj.self.trunk, call.x).m2

SameBatchAndSize(xs) ==
    \A i \in 1..Len(xs) :
        xs[i].n = xs[1].n /\ xs[i].h = xs[1].h /\ xs[i].w = xs[1].w

\* C1 as stated: in eval mode each of the four single-head models returns one
\* tensor of shape (N, num_classes, H, W) for an input (N, 3, H, W).
C1_Original ==
    (SingleHead /\ EvalReturned) =>
        call.result = Tensor(call.x.n, obj.args.num_classes, call.x.h, call.x.w)

\* C1 amended: DeepV3Plus, DeepWV3Plus and DeepWV3Plus_dropout (tasks=None)
\* return (N, num_classes, H, W); DeepWV3Plus_cfl, whose head has no
\* classifier convolution, returns (N, 256, H, W) whatever num_classes is.
C1_OutputShape ==
    (SingleHead /\ EvalReturned) =>
        call.result = Tensor(call.x.n,
                             IF obj.kind = "DeepWV3Plus_cfl" THEN 256
                             ELSE obj.args.num_classes,
                             call.x.h, call.x.w)

C1_Witness ==
    /\ SingleHead /\ EvalReturned
    /\ obj.kind = "DeepWV3Plus_cfl"
    /\ obj.args.num_classes = 19
    /\ call.x.h = MinSize /\ call.x.w = MaxSize
    /\ IsTensor(call.result)

\* C2: every concatenation of a forward pass has operands of one batch size
\* and one spatial size, and none fails on a size mismatch; the ASPP
\* concatenates len(rates) + 1 times, every operand having the ASPP input's
\* H x W; the decoder's operands have the size of the skip feature.
C2_CatsAligned ==
    (call.kind \in {"done", "pdb"}) =>
        /\ \A k \in 1..Len(call.cats) :
              SameBatchAndSize(call.cats[k]) /\ call.cats[k][1].n = call.x.n
        /\ ~(IsRaise(call.result) /\ call.result.exc = "RuntimeError")
        /\ ~call.training =>
              Len(call.cats) = IF obj.kind = "ASPP" THEN Len(obj.args.rates) + 1
                               ELSE IF TaskCount = 2 THEN 10 ELSE 5
        /\ obj.kind = "ASPP" =>
              \A k \in 1..Len(call.cats) : \A i \in 1..2 :
                  Size2(call.cats[k][i]) = Size2(call.x)
        /\ obj.kind \in Models =>
              /\ \A k \in 1..Len(call.cats) :
                    k \notin {5, 10} =>
                        Size2(call.cats[k][1]) = Size2(call.cats[1][1])
              /\ \A k \in {j \in {5, 10} : j <= Len(call.cats)} : \A i \in 1..2 :
                    Size2(call.cats[k][i]) = Size2(SkipFeature)

C2_Witness ==
    /\ call.kind = "done"
    /\ obj.kind = "DeepV3Plus" /\ obj.args.skip = "m1" /\ obj.args.variant = "D"
    /\ call.x.h = MaxSize /\ call.x.w = 16
    /\ Len(call.cats) = 5
    /\ Size2(call.cats[5][2]) # Size2(call.cats[1][1])
    /\ call.cats[5][2].h > 1

RECURSIVE SumOut(_, _)
SumOut(ms, i) == IF i > Len(ms) THEN 0 ELSE ms[i].out + SumOut(ms, i + 1)

AsppChannels(aspp) == aspp.img_conv.out + SumOut(aspp.features, 1)

\* channels of the skip feature, from the module that produces it
SkipChannels ==
    IF obj.kind = "DeepV3Plus"
    THEN IF obj.args.skip = "m1" THEN obj.self.layer1[<<"2", "conv3">>].out
         ELSE obj.self.layer2[<<"3", "conv3">>].out
    ELSE obj.self.trunk.mod2.out

HeadConsistent(aspp, bot_aspp, bot_fine, final) ==
    /\ AsppChannels(aspp) = 1280
    /\ AsppChannels(aspp) = bot_aspp.in
    /\ bot_fine.out + bot_aspp.out = final[1].in
    /\ bot_fine.in = SkipChannels

\* C3: the ASPP output has (len(rates) + 2) * reduction_dim channels, 1280 in
\* every model and the input width of bot_aspp; the decoder concatenation is as
\* wide as the head's first convolution expects; bot_fine expects the channels
\* of the skip feature (256 for m1, 512 for m2, 128 for WideResNet); and no
\* forward pass fails on a channel mismatch.
C3_ChannelsConsistent ==
    /\ (obj.kind = "ASPP" /\ Constructed) =>
          /\ AsppChannels(obj.self)
                = (Len(obj.args.rates) + 2) * obj.args.reduction_dim
          /\ EvalReturned =>
                /\ IsTensor(call.result)
                /\ call.result.c = (Len(obj.args.rates) + 2) * obj.args.reduction_dim
    /\ IsModel =>
          /\ HeadConsistent(obj.self.aspp, obj.self.bot_aspp, obj.self.bot_fine,
                            obj.self.final)
          /\ obj.self.bot_fine.in =
                IF obj.kind # "DeepV3Plus" THEN 128
                ELSE IF obj.args.skip = "m1" THEN 256 ELSE 512
          /\ obj.self.bot_fine.out =
                IF obj.kind = "DeepV3Plus" THEN obj.args.skip_num ELSE 48
          /\ HasTasks =>
                HeadConsistent(obj.self.aspp2, obj.self.bot_aspp2,
                               obj.self.bot_fine2, obj.self.final2)
          /\ call.kind \in {"done", "pdb"} =>
                /\ ~(IsRaise(call.result) /\ call.result.msg = "channels")
                /\ Len(call.cats) >= 5 =>
                      /\ call.cats[4][1].c + call.cats[4][2].c = 1280
                      /\ call.cats[5][1].c + call.cats[5][2].c
                            = obj.self.final[1].in

C3_Witness ==
    /\ IsModel /\ EvalReturned
    /\ obj.kind = "DeepV3Plus" /\ obj.args.skip = "m2"
    /\ obj.args.skip_num = MaxSkipNum /\ obj.args.trunk = "seresnext-50"
    /\ Len(call.cats) = 5
    /\ call.cats[5][1].c = MaxSkipNum
    /\ IsTensor(call.result)

Heads ==
    <<obj.self.aspp>> \o (IF HasTasks THEN <<obj.self.aspp2>> ELSE <<>>)

AsppShape(aspp, rates) ==
    /\ Len(aspp.features) = 4
    /\ aspp.features[1].kernel_size = <<1, 1>>
    /\ \A i \in 1..3 :
          /\ aspp.features[i + 1].kernel_size = <<3, 3>>
          /\ aspp.features[i + 1].dilation = Pair(rates[i])
    /\ \A i \in 1..4 : aspp.features[i].out = 256
    /\ aspp.img_conv.out = 256

FiveBranchesConcatenated ==
    (call.kind \in {"done", "pdb"} /\ Len(call.cats) >= 4) =>
        /\ \A k \in 1..4 : call.cats[k][1].c = 256 * k /\ call.cats[k][2].c = 256
        /\ Len(call.cats) >= 9 =>
              \A k \in 1..4 : call.cats[5 + k][1].c = 256 * k
                                /\ call.cats[5 + k][2].c = 256

ValidTrunks == {"seresnext-50", "seresnext-101", "resnet-50", "resnet-101"}

\* C5: DeepV3Plus with an unknown trunk raises ValueError "Not a valid network
\* arch"; with a known trunk and a skip outside {m1, m2} it raises Exception
\* "Not a valid skip"; both unknown give the ValueError; every known trunk
\* with m1 or m2 constructs.
C5_Validation ==
    obj.kind = "DeepV3Plus" =>
        IF obj.args.trunk \notin ValidTrunks
        THEN obj.self = Raise("ValueError", "Not a valid network arch")
        ELSE IF obj.args.skip \notin {"m1", "m2"}
        THEN obj.self = Raise("Exception", "Not a valid skip")
        ELSE obj.self.kind = "DeepV3Plus"

C5_Witness ==
    /\ obj.kind = "DeepV3Plus"
    /\ obj.args.trunk \notin ValidTrunks /\ obj.args.skip \notin {"m1", "m2"}
    /\ obj.self = Raise("ValueError", "Not a valid network arch")

\* C6: an ASPP module with an output_stride other than 8 or 16 fails with the
\* message 'output stride of <value> not supported'; with 16 the rates are
\* used as given, with 8 every rate is doubled.
C6_StrideMessage ==
    obj.kind = "ASPP" =>
        IF obj.args.output_stride \notin {8, 16}
        THEN /\ IsRaise(obj.self)
             /\ obj.self.msg = "output stride of " \o Str(obj.args.output_stride)
                                   \o " not supported"
        ELSE \A i \in 1..Len(obj.args.rates) :
                obj.self.features[i + 1].dilation =
                    Pair(IF obj.args.output_stride = 8 THEN 2 * obj.args.rates[i]
                         ELSE obj.args.rates[i])

\* C7: no forward pass ever stops to wait for interactive input.
C7_NeverWaits == call.kind # "pdb"

Unchanged(layer) == obj.self[layer] = DeepV3Plus_trunk(obj.args.trunk)[layer]

\* every conv2 of the layer has dilation = padding = d and stride 1, every
\* downsample.0 stride 1, and nothing else differs from the backbone's layer
Dilated(layer, d) ==
    LET new == obj.self[layer]
        old == DeepV3Plus_trunk(obj.args.trunk)[layer]
    IN  /\ DOMAIN new = DOMAIN old
        /\ \A n \in DOMAIN old :
              IF n[Len(n)] = "conv2"
              THEN new[n] = [old[n] EXCEPT !.dilation = <<d, d>>, !.padding = <<d, d>>,
                                           !.stride = <<1, 1>>]
              ELSE IF Len(n) = 3 /\ n[3] = "0"
              THEN new[n] = [old[n] EXCEPT !.stride = <<1, 1>>]
              ELSE new[n] = old[n]

\* the modules of layer3 and layer4 that differ from the backbone's
Changed ==
    UNION {{obj.self[l][n] : n \in {m \in DOMAIN obj.self[l] :
                obj.self[l][m] # DeepV3Plus_trunk(obj.args.trunk)[l][m]}} :
           l \in {"layer3", "layer4"}}

CeilHalf(v) == (v + 1) \div 2

\* the backbone's output (the ASPP input) against the layer2 output and,
\* for an input of height 16, against the input
BackboneStride(reduce, stride) ==
    (call.kind = "done" /\ obj.args.skip = "m2" /\ Len(call.cats) = 5) =>
        /\ call.cats[1][1].h = reduce[call.cats[5][1].h]
        /\ call.cats[1][1].w = reduce[call.cats[5][1].w]
        /\ call.x.h = 16 => call.cats[1][1].h = Max(16 \div stride, 1)

C8_Layers ==
    /\ Constructed
    /\ Unchanged("layer0") /\ Unchanged("layer1") /\ Unchanged("layer2")
    /\ obj.args.variant = "D" =>
          /\ Dilated("layer3", 2) /\ Dilated("layer4", 4)
          /\ BackboneStride([v \in 1..MaxSize |-> v], 8)
    /\ obj.args.variant = "D16" =>
          /\ Unchanged("layer3") /\ Dilated("layer4", 2)
          /\ BackboneStride([v \in 1..MaxSize |-> CeilHalf(v)], 16)
    /\ obj.args.variant \notin {"D", "D16"} =>
          /\ Unchanged("layer3") /\ Unchanged("layer4")
          /\ BackboneStride([v \in 1..MaxSize |-> CeilHalf(CeilHalf(v))], 32)

AcceptedDeepV3Plus ==
    /\ obj.kind = "DeepV3Plus"
    /\ obj.args.trunk \in ValidTrunks /\ obj.args.skip \in {"m1", "m2"}

====
